---- MODULE Spec2Model ----
(***************************************************************************)
(* Model of slurmqueen's result ingestion:                                 *)
(*   experiment.py            ExperimentInstance.create_database (flat     *)
(*                            "key: value" output files), query and the    *)
(*                            SQLiteConnection context manager;            *)
(*   sql_cached_experiment.py SQLCachedExperiment._save_data (tabular      *)
(*                            output files with a declared schema).        *)
(* Text is modelled character by character: a Python str is a sequence of  *)
(* one-character strings, so that split, strip, endswith, int and          *)
(* ast.literal_eval are computed rather than assumed.                      *)
(***************************************************************************)
EXTENDS Integers, Sequences, FiniteSets, TLC

(***************************************************************************)
(* Python str operations                                                   *)
(***************************************************************************)
DigitChars == <<"0", "1", "2", "3", "4", "5", "6", "7", "8", "9">>

Digits == {DigitChars[i] : i \in 1..10}

Letters == {"a", "b", "e", "f", "i", "l", "n", "o", "r", "t", "u", "x", "y"}

Whitespace == {" ", "\n", "\t"}

Quote == "\""

Min(a, b) == IF a < b THEN a ELSE b

\* s[i..j] as Python s[i-1:j]: positions past the end are clipped
Slice(s, i, j) == IF j < i \/ i > Len(s) THEN <<>> ELSE SubSeq(s, i, Min(j, Len(s)))

\* Python `c in s`
Contains(s, c) == \E i \in 1..Len(s) : s[i] = c

\* str.endswith
EndsWith(s, suffix) ==
    /\ Len(s) >= Len(suffix)
    /\ Slice(s, Len(s) - Len(suffix) + 1, Len(s)) = suffix

RECURSIVE LStrip(_)
LStrip(s) == IF s # <<>> /\ Head(s) \in Whitespace THEN LStrip(Tail(s)) ELSE s

RECURSIVE RStrip(_)
RStrip(s) ==
    IF s # <<>> /\ s[Len(s)] \in Whitespace THEN RStrip(Slice(s, 1, Len(s) - 1)) ELSE s

\* str.strip()
Strip(s) == RStrip(LStrip(s))

\* str.split(sep) for a one-character separator: every occurrence splits
RECURSIVE Split(_, _)
Split(s, sep) ==
    IF ~Contains(s, sep) THEN <<s>>
    ELSE LET i == CHOOSE k \in 1..Len(s) :
                      s[k] = sep /\ \A j \in 1..(k - 1) : s[j] # sep
         IN  <<Slice(s, 1, i - 1)>> \o Split(Slice(s, i + 1, Len(s)), sep)

\* str.rfind(c) + 1 : the 1-based position after the last c, 1 when absent
AfterLast(s, c) ==
    IF ~Contains(s, c) THEN 1
    ELSE (CHOOSE k \in 1..Len(s) : s[k] = c /\ \A j \in (k + 1)..Len(s) : s[j] # c) + 1

\* str.replace(old, "") : every non-overlapping occurrence removed, left to right
RECURSIVE Remove(_, _)
Remove(s, old) ==
    IF Len(s) < Len(old) THEN s
    ELSE IF Slice(s, 1, Len(old)) = old THEN Remove(Slice(s, Len(old) + 1, Len(s)), old)
    ELSE <<Head(s)>> \o Remove(Tail(s), old)

DigitVal(c) == (CHOOSE i \in 1..10 : DigitChars[i] = c) - 1

RECURSIVE DecimalVal(_)
DecimalVal(s) ==
    IF s = <<>> THEN 0 ELSE 10 * DecimalVal(Slice(s, 1, Len(s) - 1)) + DigitVal(s[Len(s)])

IsDigits(s) == s # <<>> /\ \A i \in 1..Len(s) : s[i] \in Digits

\* int(text): surrounding whitespace and leading zeros are accepted, anything
\* that is not an optionally signed run of digits raises ValueError
PyInt(text) ==
    LET s == Strip(text) IN
    IF IsDigits(s) THEN [st |-> "ok", n |-> DecimalVal(s)]
    ELSE IF s # <<>> /\ Head(s) = "-" /\ IsDigits(Tail(s))
         THEN [st |-> "ok", n |-> 0 - DecimalVal(Tail(s))]
    ELSE [st |-> "ValueError", n |-> 0]

(***************************************************************************)
(* Python values.  Every value is a record of the same shape so that any   *)
(* two values can be compared; a dict is its insertion-ordered sequence of *)
(* [k, v] items.                                                           *)
(***************************************************************************)
Val(t, n, s, items) == [t |-> t, n |-> n, s |-> s, items |-> items]

VInt(n) == Val("int", n, <<>>, <<>>)

VStr(s) == Val("str", 0, s, <<>>)

VName(s) == Val("name", 0, s, <<>>)

VTuple(items) == Val("tuple", 0, <<>>, items)

VList(items) == Val("list", 0, <<>>, items)

VDict(items) == Val("dict", 0, <<>>, items)

VNull == Val("null", 0, <<>>, <<>>)

Item(k, v) == [k |-> k, v |-> v]

HasKey(items, k) == \E i \in 1..Len(items) : items[i].k = k

KeyIndex(items, k) == CHOOSE i \in 1..Len(items) : items[i].k = k

\* d[k]
DictGet(items, k) == items[KeyIndex(items, k)].v

\* d[k] = v : an existing key keeps its position, a new key goes last
DictSet(items, k, v) ==
    IF HasKey(items, k)
    THEN [items EXCEPT ![KeyIndex(items, k)] = Item(k, v)]
    ELSE Append(items, Item(k, v))

\* d.pop(k, None)
DictPop(items, k) ==
    IF HasKey(items, k)
    THEN LET i == KeyIndex(items, k)
         IN  Slice(items, 1, i - 1) \o Slice(items, i + 1, Len(items))
    ELSE items

DictKeys(items) == {items[i].k : i \in 1..Len(items)}

(***************************************************************************)
(* ast.literal_eval on the literals the output files use: decimal          *)
(* integers, double-quoted strings without escapes, names, unary minus,    *)
(* tuples, lists and dicts, nested at will.  The source text is parsed     *)
(* first (SyntaxError); a tree holding anything but literals, such as the  *)
(* names inf and nan, is then rejected (ValueError).                       *)
(***************************************************************************)
\* first position >= i that is past the end or holds a character outside set
RunEnd(s, i, set) ==
    CHOOSE j \in i..(Len(s) + 1) :
        /\ j = Len(s) + 1 \/ s[j] \notin set
        /\ \A k \in i..(j - 1) : s[k] \in set

SkipWs(s, i) == RunEnd(s, i, Whitespace)

POk(v, next) == [st |-> "ok", v |-> v, next |-> next]

PSyntaxError == [st |-> "SyntaxError", v |-> VNull, next |-> 0]

ParseNumber(s, i) ==
    LET j   == RunEnd(s, i, Digits)
        tok == Slice(s, i, j - 1)
    IN  IF j <= Len(s) /\ s[j] \in Letters THEN PSyntaxError    \* 12ab
        ELSE IF Len(tok) > 1 /\ tok[1] = "0" /\ DecimalVal(tok) # 0
             THEN PSyntaxError                                  \* 07
        ELSE POk(VInt(DecimalVal(tok)), j)

ParseName(s, i) ==
    LET j == RunEnd(s, i, Letters \cup Digits)
    IN  POk(VName(Slice(s, i, j - 1)), j)

\* a string literal ends at the next quote on the same line
ParseString(s, i) ==
    LET j == RunEnd(s, i + 1, (Letters \cup Digits \cup {" ", "\t", ":", ",", "-",
                                "(", ")", "[", "]", "{", "}"}))
    IN  IF j <= Len(s) /\ s[j] = Quote
        THEN POk(VStr(Slice(s, i + 1, j - 1)), j + 1)
        ELSE PSyntaxError

RECURSIVE ParseValue(_, _), ParseItems(_, _, _, _, _), ParseDictItems(_, _, _)
ParseValue(s, i0) ==
    LET i == SkipWs(s, i0) IN
    IF i > Len(s) THEN PSyntaxError
    ELSE IF s[i] \in Digits THEN ParseNumber(s, i)
    ELSE IF s[i] \in Letters THEN ParseName(s, i)
    ELSE IF s[i] = Quote THEN ParseString(s, i)
    ELSE IF s[i] = "-"
         THEN LET r == ParseValue(s, i + 1)
              IN  IF r.st # "ok" THEN r
                  ELSE IF r.v.t = "int" THEN POk(VInt(0 - r.v.n), r.next)
                  ELSE POk(VName(<<"-">>), r.next)
    ELSE IF s[i] = "(" THEN ParseItems(s, i + 1, ")", <<>>, FALSE)
    ELSE IF s[i] = "[" THEN ParseItems(s, i + 1, "]", <<>>, FALSE)
    ELSE IF s[i] = "{" THEN ParseDictItems(s, i + 1, <<>>)
    ELSE PSyntaxError

ParseItems(s, i0, close, acc, comma) ==
    LET i == SkipWs(s, i0) IN
    IF i > Len(s) THEN PSyntaxError
    ELSE IF s[i] = close
         THEN POk(IF close = "]" THEN VList(acc)
                  ELSE IF Len(acc) = 1 /\ ~comma THEN acc[1]   \* (x) is x
                  ELSE VTuple(acc), i + 1)
    ELSE LET r == ParseValue(s, i) IN
         IF r.st # "ok" THEN r
         ELSE LET k == SkipWs(s, r.next) IN
              IF k > Len(s) THEN PSyntaxError
              ELSE IF s[k] = "," THEN ParseItems(s, k + 1, close, Append(acc, r.v), TRUE)
              ELSE IF s[k] = close THEN ParseItems(s, k, close, Append(acc, r.v), comma)
              ELSE PSyntaxError

ParseDictItems(s, i0, acc) ==
    LET i == SkipWs(s, i0) IN
    IF i > Len(s) THEN PSyntaxError
    ELSE IF s[i] = "}" THEN POk(VDict(acc), i + 1)
    ELSE LET k == ParseValue(s, i) IN
         IF k.st # "ok" THEN k
         ELSE LET j == SkipWs(s, k.next) IN
              IF j > Len(s) \/ s[j] # ":" THEN PSyntaxError
              ELSE LET v == ParseValue(s, j + 1) IN
                   IF v.st # "ok" THEN v
                   ELSE LET m == SkipWs(s, v.next) IN
                        IF m > Len(s) THEN PSyntaxError
                        ELSE IF s[m] = ","
                             THEN ParseDictItems(s, m + 1, DictSet(acc, k.v, v.v))
                        ELSE IF s[m] = "}"
                             THEN ParseDictItems(s, m, DictSet(acc, k.v, v.v))
                        ELSE PSyntaxError

\* whether the tree holds a node that is not a literal
RECURSIVE HasName(_)
HasName(v) ==
    \/ v.t = "name"
    \/ v.t \in {"tuple", "list"} /\ \E i \in 1..Len(v.items) : HasName(v.items[i])
    \/ v.t = "dict" /\ \E i \in 1..Len(v.items) :
                           HasName(v.items[i].k) \/ HasName(v.items[i].v)

\* the outcome of literal_eval given the parse r of the whole text
LiteralResult(text, r) ==
    IF r.st # "ok" THEN [st |-> "SyntaxError", v |-> VNull]
    ELSE IF SkipWs(text, r.next) <= Len(text) THEN [st |-> "SyntaxError", v |-> VNull]
    ELSE IF HasName(r.v) THEN [st |-> "ValueError", v |-> VNull]
    ELSE [st |-> "ok", v |-> r.v]

literal_eval(text) == LiteralResult(text, ParseValue(text, 1))

(***************************************************************************)
(* Parsing one output file                                                 *)
(***************************************************************************)
K(s) == VStr(s)

K_file == K(<<"f", "i", "l", "e">>)

K_empty == K(<<>>)

DotOut == <<".", "o", "u", "t">>

\* `a is b` on two str objects: identity is decided by the interpreter (interning,
\* caching); it can hold only for equal strings, and same says whether it does
StrIs(a, b, same) == a = b /\ same

\* int(filename[filename.rfind('/') + 1:].replace(".out", ""))
FileId(filename) ==
    PyInt(Remove(Slice(filename, AfterLast(filename, "/"), Len(filename)), DotOut))

\* lines 147-148: the value text after the inf/nan rule
NormalizedValue(text, same) ==
    IF StrIs(text, <<"i", "n", "f">>, same) \/ StrIs(text, <<"n", "a", "n">>, same)
    THEN <<"-", "1">>
    ELSE text

\* a variant without the fallback: the ValueError leaves the loop
FlatStoreNoFallback(datum, key, value, r) ==
    IF r.st = "ok" THEN [st |-> "ok", d |-> DictSet(datum, key, r.v)]
    ELSE [st |-> r.st, d |-> datum]

\* lines 150-153: r is what literal_eval made of the stripped value text
FlatStore(datum, key, value, r) ==
    IF r.st = "ok" THEN [st |-> "ok", d |-> DictSet(datum, key, r.v)]
    ELSE IF r.st = "ValueError"
         THEN [st |-> "ok", d |-> DictSet(datum, key, VStr(Strip(value)))]
    ELSE [st |-> r.st, d |-> datum]

FlatAssign(datum, key, value) ==
    FlatStore(datum, key, value, literal_eval(Strip(value)))

\* lines 146-153
FlatPair(datum, key_value_pair, same) ==
    FlatAssign(datum, K(Strip(key_value_pair[1])),
               NormalizedValue(key_value_pair[2], same))

\* lines 142-153: one body line of the loop over lines[1:]
FlatLine(datum, line, same) ==
    IF Len(line) = 1 THEN [st |-> "ok", d |-> datum]
    ELSE IF ~Contains(line, ":") THEN [st |-> "ok", d |-> datum]
    ELSE FlatPair(datum, Split(line, ":"), same)

\* line 141: the loop, left at the first line that raises
RECURSIVE FlatBody(_, _, _, _), FlatNext(_, _, _, _)
FlatBody(datum, lines, i, same) ==
    IF i > Len(lines) THEN [st |-> "ok", d |-> datum]
    ELSE FlatNext(FlatLine(datum, lines[i], same), lines, i, same)

FlatNext(r, lines, i, same) ==
    IF r.st # "ok" THEN r ELSE FlatBody(r.d, lines, i + 1, same)

\* lines 137-139 on the parsed header, then the body
FlatFile(file_id, head, lines, same) ==
    IF file_id.st # "ok" THEN [st |-> file_id.st, d |-> <<>>]
    ELSE IF head.st # "ok" THEN [st |-> head.st, d |-> <<>>]
    ELSE IF head.v.t = "list" THEN [st |-> "TypeError", d |-> <<>>]
    ELSE IF head.v.t # "dict" THEN [st |-> "AttributeError", d |-> <<>>]
    ELSE FlatBody(DictSet(DictPop(head.v.items, K_empty), K_file, VInt(file_id.n)),
                  lines, 2, same)

\* experiment.py, the try block of create_database for one nonempty file
ParseFlatFile(filename, lines, same) ==
    FlatFile(FileId(filename), literal_eval(lines[1]), lines, same)

\* the values iterating over a parsed body literal yields, as zip consumes them
IterItems(v) ==
    IF v.t \in {"tuple", "list"} THEN v.items
    ELSE IF v.t = "dict" THEN [i \in 1..Len(v.items) |-> v.items[i].k]
    ELSE [i \in 1..Len(v.s) |-> VStr(<<v.s[i]>>)]

\* {col[0]: val for col, val in chain(zip(data_columns, tup), [(("file", ""), file_id)])}
RECURSIVE ZipRow(_, _, _, _)
ZipRow(acc, data_columns, items, i) ==
    IF i > Min(Len(data_columns), Len(items)) THEN acc
    ELSE ZipRow(DictSet(acc, K(data_columns[i][1]), items[i]), data_columns, items, i + 1)

TabularRow(data_columns, tup, file_id) ==
    DictSet(ZipRow(<<>>, data_columns, IterItems(tup), 1), K_file, VInt(file_id))

\* lines 59-61: the rows of the body, left at the first line that raises
RECURSIVE TabularBody(_, _, _, _, _), TabularNext(_, _, _, _, _, _)
TabularBody(rows, lines, i, data_columns, file_id) ==
    IF i > Len(lines) THEN [st |-> "ok", rows |-> rows]
    ELSE TabularNext(literal_eval(lines[i]), rows, lines, i, data_columns, file_id)

TabularNext(r, rows, lines, i, data_columns, file_id) ==
    IF r.st # "ok" THEN [st |-> r.st, rows |-> rows]
    ELSE IF r.v.t \in {"int", "null"} THEN [st |-> "TypeError", rows |-> rows]
    ELSE TabularBody(Append(rows, TabularRow(data_columns, r.v, file_id)),
                     lines, i + 1, data_columns, file_id)

\* dict(file=file_id, **mapping)
HeaderDict(mapping, file_id) ==
    IF mapping.t # "dict" THEN [st |-> "TypeError", d |-> <<>>]
    ELSE IF \E k \in DictKeys(mapping.items) : k.t # "str" \/ k = K_file
         THEN [st |-> "TypeError", d |-> <<>>]
    ELSE [st |-> "ok", d |-> <<Item(K_file, VInt(file_id))>> \o mapping.items]

NoRecords(st) == [st |-> st, header |-> <<>>, rows |-> <<>>]

TabularRecords(h, b) ==
    IF h.st # "ok" THEN NoRecords(h.st) ELSE [st |-> b.st, header |-> h.d, rows |-> b.rows]

\* lines 56-61 on the parsed header
TabularFile(file_id, head, lines, data_columns) ==
    IF file_id.st # "ok" THEN NoRecords(file_id.st)
    ELSE IF head.st # "ok" THEN NoRecords(head.st)
    ELSE TabularRecords(HeaderDict(head.v, file_id.n),
                        TabularBody(<<>>, lines, 2, data_columns, file_id.n))

\* sql_cached_experiment.py, the try block of _save_data for one nonempty file
ParseTabularFile(filename, lines, data_columns) ==
    TabularFile(FileId(filename), literal_eval(lines[1]), lines, data_columns)

(***************************************************************************)
(* The store: the tables of _results.db.  A table has ordered columns, the *)
(* columns of its PRIMARY KEY constraint and rows aligned with the columns.*)
(***************************************************************************)
TableNames == {"data", "headers"}

NoTable == [exists |-> FALSE, cols |-> <<>>, pk |-> <<>>, rows |-> <<>>]

NoTables == [name \in TableNames |-> NoTable]

SeqToSet(q) == {q[i] : i \in 1..Len(q)}

IndexOf(q, x) == CHOOSE i \in 1..Len(q) : q[i] = x

\* the columns of pd.DataFrame(records): the keys in order of first appearance
RECURSIVE FrameCols(_, _, _)
FrameCols(records, i, acc) ==
    IF i > Len(records) THEN acc
    ELSE LET keys == [j \in 1..Len(records[i]) |-> records[i][j].k]
             new  == SelectSeq(keys, LAMBDA k : k \notin SeqToSet(acc))
         IN  FrameCols(records, i + 1, acc \o new)

\* pd.DataFrame(list of dicts): a missing key is a missing cell
DataFrame(records) ==
    LET cols == FrameCols(records, 1, <<>>)
    IN  [cols |-> cols,
         rows |-> [i \in 1..Len(records) |->
                      [j \in 1..Len(cols) |->
                          IF HasKey(records[i], cols[j])
                          THEN DictGet(records[i], cols[j]) ELSE VNull]]]

SqlOk(tables) == [st |-> "ok", tables |-> tables]

SqlFail(st, tables) == [st |-> st, tables |-> tables]

\* DROP TABLE IF EXISTS name
SqlDrop(tables, name) == SqlOk([tables EXCEPT ![name] = NoTable])

NoDuplicates(q) == \A i, j \in 1..Len(q) : q[i] = q[j] => i = j

\* CREATE TABLE name (cols, PRIMARY KEY(pk)); pk = <<>> is no constraint
SqlCreate(tables, name, cols, pk) ==
    IF \/ tables[name].exists
       \/ cols = <<>>
       \/ ~NoDuplicates(cols)
       \/ ~(SeqToSet(pk) \subseteq SeqToSet(cols))
    THEN SqlFail("OperationalError", tables)
    ELSE SqlOk([tables EXCEPT ![name] =
                    [exists |-> TRUE, cols |-> cols, pk |-> pk, rows |-> <<>>]])

\* the frame's rows laid out on the table's columns
AlignRows(table, frame) ==
    [i \in 1..Len(frame.rows) |->
        [j \in 1..Len(table.cols) |->
            IF table.cols[j] \in SeqToSet(frame.cols)
            THEN frame.rows[i][IndexOf(frame.cols, table.cols[j])] ELSE VNull]]

PkOf(table, row) == [j \in 1..Len(table.pk) |-> row[IndexOf(table.cols, table.pk[j])]]

PkUnique(table, rows) ==
    \/ table.pk = <<>>
    \/ \A i, j \in 1..Len(rows) :
           (/\ PkOf(table, rows[i]) = PkOf(table, rows[j])
            /\ VNull \notin SeqToSet(PkOf(table, rows[i]))) => i = j

Bindable(v) == v.t \in {"int", "str", "null"}

\* INSERT INTO name (frame.cols) VALUES ... for every row of the frame, in one
\* transaction that is rolled back when a row is refused
SqlInsert(tables, name, frame) ==
    LET table == tables[name]
        rows  == table.rows \o AlignRows(table, frame)
    IN  IF frame.rows = <<>> THEN SqlOk(tables)
        ELSE IF ~table.exists \/ ~(SeqToSet(frame.cols) \subseteq SeqToSet(table.cols))
             THEN SqlFail("OperationalError", tables)
        ELSE IF \E i \in 1..Len(frame.rows) :
                    \E j \in 1..Len(frame.cols) : ~Bindable(frame.rows[i][j])
             THEN SqlFail("InterfaceError", tables)
        ELSE IF ~PkUnique(table, rows) THEN SqlFail("IntegrityError", tables)
        ELSE SqlOk([tables EXCEPT ![name].rows = rows])

\* a variant that keeps an existing table and its rows
TableCreateKeep(tables, name, frame, keys) ==
    IF tables[name].exists THEN SqlOk(tables)
    ELSE SqlCreate(tables, name, frame.cols, keys)

\* pandas SQLiteTable.create() with if_exists="replace": drop an existing table,
\* then create one with the frame's columns
TableCreateReplace(tables, name, frame, keys) ==
    SqlCreate(SqlDrop(tables, name).tables, name, frame.cols, keys)

\* pandas SQLiteTable.create() with if_exists="append": an existing table is kept
TableCreateAppend(tables, name, frame, keys) ==
    IF tables[name].exists THEN SqlOk(tables)
    ELSE SqlCreate(tables, name, frame.cols, keys)

\* the insert that follows the create of to_sql, unless the create raised
InsertAfter(c, name, frame) ==
    IF c.st # "ok" THEN c ELSE SqlInsert(c.tables, name, frame)

(***************************************************************************)
(* SQLiteConnection, the same class in both files.  db is the committed    *)
(* content of the store file, txn what the open connection sees.           *)
(***************************************************************************)
\* __enter__
SQLiteConnection_enter(database) ==
    [conn |-> "open", txn |-> database, log |-> <<"connect">>]

\* a variant that commits and closes only when the block ends normally
SQLiteConnection_exit_normal_only(exit_type, connection, database, log) ==
    IF exit_type = ""
    THEN [conn |-> "closed", db |-> connection, log |-> log \o <<"commit", "close">>]
    ELSE [conn |-> "open", db |-> database, log |-> log]

\* __exit__(exit_type, value, traceback): conn.commit(); conn.close(); the
\* exception that ended the scope, if any, is not swallowed
SQLiteConnection_exit(exit_type, connection, database, log) ==
    [conn |-> "closed", db |-> connection, log |-> log \o <<"commit", "close">>]

(***************************************************************************)
(* Inputs: the local directory, the declared schema, the prior store       *)
(***************************************************************************)
MaxFiles == 2

MaxBody == 2

MaxRuns == 2

LocalDirectory == <<"d">>

N_07 == <<"0", "7", ".", "o", "u", "t">>

N_3 == <<"3", ".", "o", "u", "t">>

N_in == <<"0", ".", "i", "n">>

H_empty == <<"{", "}", "\n">>

H_pos == <<"{", Quote, Quote, ":", " ", "[", "1", "]", ",", " ", Quote, "a", Quote, ":", " ", "2", "}", "\n">>

H_file == <<"{", Quote, "f", "i", "l", "e", Quote, ":", " ", "9", "}", "\n">>

H_syn == <<"{", Quote, "a", "\n">>

H_val == <<"{", Quote, "a", Quote, ":", " ", "n", "a", "n", "}", "\n">>

H_int == <<"1", "\n">>

B_a1 == <<"a", ":", " ", "1", "\n">>

B_inf == <<"b", ":", " ", "i", "n", "f", "\n">>

B_nan == <<"b", ":", "n", "a", "n">>

B_colon == <<"a", ":", " ", "1", ":", "2", "\n">>

B_file == <<"f", "i", "l", "e", ":", " ", "3", "\n">>

B_syn == <<"a", ":", " ", "x", " ", "y", "\n">>

B_nocolon == <<"x", "y", "\n">>

T_12 == <<"(", "1", ",", " ", "2", ")", "\n">>

T_3 == <<"(", "3", ",", ")", "\n">>

T_int == <<"4", "\n">>

T_syn == <<"(", "1", "\n">>

GoodHeaders == {H_empty, H_pos, H_file}

BadHeaders == {H_syn, H_val, H_int}

FlatBodyLines == {B_a1, B_inf, B_nan, B_colon, B_file, B_syn, B_nocolon}

TabularBodyLines == {T_12, T_3, T_int, T_syn}

SeqsUpTo(S, n) == UNION {[1..k -> S] : k \in 0..n}

\* the contents of the output file under study: no line at all, one header with
\* every body up to MaxBody lines, the other headers with a short body
Contents(bodyLines, plain) ==
    {<<>>}
      \cup {<<H_pos>> \o b : b \in SeqsUpTo(bodyLines, MaxBody)}
      \cup {<<h>> \o b : h \in (GoodHeaders \cup BadHeaders) \ {H_pos},
                          b \in {<<>>, <<plain>>}}

File(name, lines) == [name |-> name, lines |-> lines]

\* the other entries of the directory: a sound output file and a job script
Companions(plain) == {File(N_3, <<H_empty, plain>>), File(N_in, <<>>)}

CompanionSeqs(plain, n) ==
    {q \in SeqsUpTo(Companions(plain), n) : NoDuplicates(q)}

InsertAt(q, pos, x) == Slice(q, 1, pos - 1) \o <<x>> \o Slice(q, pos, Len(q))

\* os.listdir results: at most MaxFiles entries with distinct names, in any order
Directories(bodyLines, plain) ==
    CompanionSeqs(plain, MaxFiles)
      \cup {InsertAt(q, pos, File(N_07, lines)) :
              q \in CompanionSeqs(plain, MaxFiles - 1), pos \in 1..MaxFiles,
              lines \in Contents(bodyLines, plain)}

Column(name) == <<name, "integer">>

\* (data_columns, primary_key) as _save_data receives them
Schemas ==
    { [data_columns |-> <<Column(<<"x">>), Column(<<"y">>)>>,
       primary_key  |-> <<K(<<"x">>), K_file>>],
      [data_columns |-> <<Column(<<"x">>)>>, primary_key |-> <<K_file>>] }

\* a schema that declares a column named file
FileSchema ==
    [data_columns |-> <<Column(<<"f", "i", "l", "e">>)>>, primary_key |-> <<K_file>>]

NoSchema == [data_columns |-> <<>>, primary_key |-> <<>>]

StaleTable ==
    [exists |-> TRUE, cols |-> <<K_file>>, pk |-> <<>>, rows |-> << <<VInt(99)>> >>]

StaleTables == [name \in TableNames |-> StaleTable]

PriorStores == {NoTables, StaleTables}

(***************************************************************************)
(* State                                                                   *)
(***************************************************************************)
VARIABLES
    dir,            \* the local directory as os.listdir returns it
    mode,           \* which ingestion entry point the caller uses
    schema,         \* data_columns and primary_key of _save_data
    ident,          \* whether this interpreter makes equal str objects identical
    db,             \* committed tables of _results.db
    txn,            \* tables as the open connection sees them
    conn,           \* "closed" or "open"
    connLog,        \* calls made on the connection of the latest scope
    op,             \* the operation running, or the last one run
    pc,             \* its position
    scope,          \* with-blocks entered by the operation so far
    err,            \* the exception propagating out of the operation, "" for none
    output_files,   \* the list output_filenames() returned
    idx,            \* position of the next file to read
    data,           \* the local list data
    headers,        \* the local list headers
    dsrc,           \* the file each element of data was read from
    hsrc,           \* the file each element of headers was read from
    storeLog,       \* statements the operation has run on the store
    dbAtStart,      \* db when the operation started
    runs,           \* ingestion runs finished
    firstResult     \* db when the first ingestion run finished

vars == <<dir, mode, schema, ident, db, txn, conn, connLog, op, pc, scope, err, output_files,
          idx, data, headers, dsrc, hsrc, storeLog, dbAtStart, runs, firstResult>>

inputVars == <<dir, mode, schema, ident>>

connVars == <<db, txn, conn, connLog>>

readVars == <<output_files, idx, data, headers, dsrc, hsrc>>

Init ==
    /\ \/ /\ mode = "flat"
          /\ schema = NoSchema
          /\ ident \in BOOLEAN
          /\ dir \in Directories(FlatBodyLines, B_a1)
       \/ /\ mode = "tabular"
          /\ schema \in Schemas
          /\ ident = FALSE
          /\ dir \in Directories(TabularBodyLines, T_12)
       \/ /\ mode = "tabular"
          /\ schema = FileSchema
          /\ ident = FALSE
          /\ dir \in CompanionSeqs(T_12, MaxFiles)
    /\ db \in PriorStores
    /\ txn = db
    /\ conn = "closed"
    /\ connLog = <<>>
    /\ op = "none"
    /\ pc = "idle"
    /\ scope = 0
    /\ err = ""
    /\ output_files = <<>>
    /\ idx = 1
    /\ data = <<>>
    /\ headers = <<>>
    /\ dsrc = <<>>
    /\ hsrc = <<>>
    /\ storeLog = <<>>
    /\ dbAtStart = db
    /\ runs = 0
    /\ firstResult = NoTables

(***************************************************************************)
(* Filesystem                                                              *)
(***************************************************************************)
Path(name) == LocalDirectory \o <<"/">> \o name

\* ExperimentInstance.output_filenames
output_filenames(directory) ==
    LET names == [i \in 1..Len(directory) |-> directory[i].name]
        outs  == SelectSeq(names, LAMBDA n : EndsWith(n, DotOut))
    IN  [i \in 1..Len(outs) |-> Path(outs[i])]

\* open(filename).readlines()
ReadLines(filename) ==
    (CHOOSE f \in SeqToSet(dir) : Path(f.name) = filename).lines

(***************************************************************************)
(* Steps shared by the operations                                          *)
(***************************************************************************)
\* the operation returns or raises: the run is over
Finish(operation, database) ==
    /\ pc' = "idle"
    /\ runs' = IF operation = "query" THEN runs ELSE runs + 1
    /\ firstResult' = IF operation # "query" /\ runs = 0 THEN database ELSE firstResult

Logged(stmts) == storeLog \o [i \in 1..Len(stmts) |-> [stmt |-> stmts[i], nread |-> idx - 1]]

Begin(operation) ==
    /\ op' = operation
    /\ scope' = 0
    /\ storeLog' = <<>>
    /\ dbAtStart' = db
    /\ idx' = 1
    /\ data' = <<>>
    /\ headers' = <<>>
    /\ dsrc' = <<>>
    /\ hsrc' = <<>>

\* `with ... as db:` is reached: SQLiteConnection.__enter__
EnterScope ==
    /\ pc = "enter"
    /\ LET c == SQLiteConnection_enter(db)
       IN  /\ conn' = c.conn
           /\ txn' = c.txn
           /\ connLog' = c.log
    /\ scope' = scope + 1
    /\ pc' = IF op = "flat" THEN "table_create"
             ELSE IF op = "query" THEN "read_sql_query"
             ELSE IF scope = 0 THEN "drop" ELSE "headers_to_sql"
    /\ UNCHANGED <<inputVars, db, op, err, readVars, storeLog, dbAtStart, runs, firstResult>>

\* the with-block is left, by its last statement or by an exception:
\* SQLiteConnection.__exit__, then the statement after the block or the raise
ExitScope ==
    /\ pc = "exit"
    /\ LET c == SQLiteConnection_exit(err, txn, db, connLog)
       IN  /\ conn' = c.conn
           /\ db' = c.db
           /\ connLog' = c.log
           /\ IF err = "" /\ op = "tabular" /\ scope = 1
              THEN pc' = "list" /\ UNCHANGED <<runs, firstResult>>
              ELSE Finish(op, c.db)
    /\ UNCHANGED <<inputVars, txn, op, scope, err, readVars, storeLog, dbAtStart>>

(***************************************************************************)
(* ExperimentInstance.create_database                                      *)
(***************************************************************************)
\* lines 122-124: list the output files, raise FileNotFoundError when none
StartFlat ==
    /\ pc = "idle"
    /\ mode = "flat"
    /\ runs < MaxRuns
    /\ Begin("flat")
    /\ output_files' = output_filenames(dir)
    /\ IF output_files' = <<>>
       THEN err' = "FileNotFoundError" /\ Finish("flat", db)
       ELSE err' = "" /\ pc' = "read" /\ UNCHANGED <<runs, firstResult>>
    /\ UNCHANGED <<inputVars, connVars>>

\* the file read raised st: the exception leaves the operation
ReadRaises(st) ==
    /\ err' = st
    /\ Finish(op, db)
    /\ UNCHANGED <<idx, data, headers, dsrc, hsrc>>

\* the loop goes on to the next file, or past the loop
ReadAdvances ==
    /\ idx' = idx + 1
    /\ pc' = IF idx = Len(output_files) THEN "enter" ELSE "read"
    /\ UNCHANGED <<err, runs, firstResult>>

\* lines 132-133: a file without lines is skipped
ReadSkips ==
    /\ ReadAdvances
    /\ UNCHANGED <<data, headers, dsrc, hsrc>>

\* line 155: data.append(datum), or the raise of lines 156-159
FlatFileRead(filename, r) ==
    IF r.st # "ok" THEN ReadRaises(r.st)
    ELSE /\ data' = Append(data, r.d)
         /\ dsrc' = Append(dsrc, filename)
         /\ ReadAdvances
         /\ UNCHANGED <<headers, hsrc>>

\* a variant that saves the records gathered so far after every file
ReadFlatFileSaving ==
    /\ pc = "read"
    /\ op = "flat"
    /\ IF ReadLines(output_files[idx]) = <<>> THEN ReadSkips
       ELSE FlatFileRead(output_files[idx],
                         ParseFlatFile(output_files[idx], ReadLines(output_files[idx]),
                                       ident))
    /\ db' = InsertAfter(TableCreateReplace(db, "data", DataFrame(data'), <<K_file>>),
                         "data", DataFrame(data')).tables
    /\ txn' = db'
    /\ storeLog' = Logged(<<"CREATE data", "INSERT data">>)
    /\ UNCHANGED <<inputVars, conn, connLog, op, scope, output_files, dbAtStart>>

\* lines 128-159: one iteration of the loop over output_files
ReadFlatFile ==
    /\ pc = "read"
    /\ op = "flat"
    /\ IF ReadLines(output_files[idx]) = <<>> THEN ReadSkips
       ELSE FlatFileRead(output_files[idx],
                         ParseFlatFile(output_files[idx], ReadLines(output_files[idx]),
                                       ident))
    /\ UNCHANGED <<inputVars, connVars, op, scope, output_files, storeLog, dbAtStart>>

\* a statement of a with-block has run on the store with outcome r: the next
\* statement follows, or the exception leaves the block
StoreStep(r, stmts, next) ==
    /\ txn' = r.tables
    /\ err' = IF r.st = "ok" THEN "" ELSE r.st
    /\ pc' = IF r.st = "ok" THEN next ELSE "exit"
    /\ storeLog' = Logged(stmts)
    /\ UNCHANGED <<inputVars, db, conn, connLog, op, scope, readVars, dbAtStart,
                   runs, firstResult>>

\* lines 165-168: SQLiteTable("data", frame=DataFrame(data), if_exists="replace",
\* keys='file') and table.create()
TableCreate ==
    /\ pc = "table_create"
    /\ StoreStep(TableCreateReplace(txn, "data", DataFrame(data), <<K_file>>),
                 IF txn["data"].exists THEN <<"DROP data", "CREATE data">>
                 ELSE <<"CREATE data">>,
                 "table_insert")

\* line 169: table.insert()
TableInsert ==
    /\ pc = "table_insert"
    /\ StoreStep(SqlInsert(txn, "data", DataFrame(data)), <<"INSERT data">>, "exit")

(***************************************************************************)
(* SQLCachedExperiment._save_data                                          *)
(***************************************************************************)
\* lines 35-43: build the CREATE TABLE query and reach the first with-block
StartTabular ==
    /\ pc = "idle"
    /\ mode = "tabular"
    /\ runs < MaxRuns
    /\ Begin("tabular")
    /\ output_files' = <<>>
    /\ err' = ""
    /\ pc' = "enter"
    /\ UNCHANGED <<inputVars, connVars, runs, firstResult>>

\* line 44: db.execute('DROP TABLE IF EXISTS data;')
DropData ==
    /\ pc = "drop"
    /\ StoreStep(SqlDrop(txn, "data"), <<"DROP data">>, "create")

\* the columns of the query of lines 40-42: data_columns + [("file", "integer")]
QueryColumns(data_columns) ==
    [i \in 1..Len(data_columns) |-> K(data_columns[i][1])] \o <<K_file>>

\* line 45: db.execute(query)
CreateData ==
    /\ pc = "create"
    /\ StoreStep(SqlCreate(txn, "data", QueryColumns(schema.data_columns),
                           schema.primary_key),
                 <<"CREATE data">>, "exit")

\* line 48: self.output_filenames()
ListTabular ==
    /\ pc = "list"
    /\ output_files' = output_filenames(dir)
    /\ pc' = IF output_files' = <<>> THEN "enter" ELSE "read"
    /\ UNCHANGED <<inputVars, connVars, op, scope, err, idx, data, headers, dsrc, hsrc,
                   storeLog, dbAtStart, runs, firstResult>>

\* lines 57-61: headers.append and data.extend, or the raise of lines 62-65
TabularFileRead(filename, r) ==
    IF r.st # "ok" THEN ReadRaises(r.st)
    ELSE /\ headers' = Append(headers, r.header)
         /\ hsrc' = Append(hsrc, filename)
         /\ data' = data \o r.rows
         /\ dsrc' = dsrc \o [i \in 1..Len(r.rows) |-> filename]
         /\ ReadAdvances

\* lines 48-65: one iteration of the loop over the output files
ReadTabularFile ==
    /\ pc = "read"
    /\ op = "tabular"
    /\ IF ReadLines(output_files[idx]) = <<>> THEN ReadSkips
       ELSE TabularFileRead(output_files[idx],
                            ParseTabularFile(output_files[idx],
                                             ReadLines(output_files[idx]),
                                             schema.data_columns))
    /\ UNCHANGED <<inputVars, connVars, op, scope, output_files, storeLog, dbAtStart>>

\* pandas DataFrame.to_sql(name, db, index=False, if_exists=...)
ToSql(tables, name, frame, if_exists) ==
    InsertAfter(IF if_exists = "replace"
                THEN TableCreateReplace(tables, name, frame, <<>>)
                ELSE TableCreateAppend(tables, name, frame, <<>>),
                name, frame)

\* line 68: pd.DataFrame(headers).to_sql("headers", db, index=False, if_exists="replace")
HeadersToSql ==
    /\ pc = "headers_to_sql"
    /\ StoreStep(ToSql(txn, "headers", DataFrame(headers), "replace"),
                 <<"REPLACE headers">>, "data_to_sql")

\* line 69: pd.DataFrame(data).to_sql("data", db, index=False, if_exists="append")
DataToSql ==
    /\ pc = "data_to_sql"
    /\ StoreStep(ToSql(txn, "data", DataFrame(data), "append"), <<"INSERT data">>, "exit")

(***************************************************************************)
(* ExperimentInstance.query                                                *)
(***************************************************************************)
\* line 95: reach the with-block
StartQuery ==
    /\ pc = "idle"
    /\ Begin("query")
    /\ err' = ""
    /\ pc' = "enter"
    /\ UNCHANGED <<inputVars, connVars, output_files, runs, firstResult>>

\* lines 96-97: pd.read_sql_query returns a frame, or raises on a query the
\* store refuses
ReadSqlQuery ==
    /\ pc = "read_sql_query"
    /\ \E ok \in BOOLEAN : err' = IF ok THEN "" ELSE "DatabaseError"
    /\ pc' = "exit"
    /\ UNCHANGED <<inputVars, connVars, op, scope, readVars, storeLog, dbAtStart,
                   runs, firstResult>>

Next ==
    \/ StartFlat
    \/ ReadFlatFile
    \/ TableCreate
    \/ TableInsert
    \/ StartTabular
    \/ DropData
    \/ CreateData
    \/ ListTabular
    \/ ReadTabularFile
    \/ HeadersToSql
    \/ DataToSql
    \/ StartQuery
    \/ ReadSqlQuery
    \/ EnterScope
    \/ ExitScope

Spec == Init /\ [][Next]_vars

(***************************************************************************)
(* Properties                                                              *)
(***************************************************************************)
InScope ==
    pc \in {"table_create", "table_insert", "drop", "create", "headers_to_sql",
            "data_to_sql", "read_sql_query", "exit"}

Ingesting == op \in {"flat", "tabular"}

\* the operation ended with an exception raised outside every with-block
FailedReading == pc = "idle" /\ Ingesting /\ err # "" /\ conn = "closed" /\ idx <= Len(output_files)

NOut == Len(output_filenames(dir))

FirstColon(line) == CHOOSE k \in 1..Len(line) : line[k] = ":" /\ \A j \in 1..(k - 1) : line[j] # ":"

\* the key and the value text of a body line as the specification cuts it
KeyText(line) == Strip(Slice(line, 1, FirstColon(line) - 1))

ValueText(line) == Strip(Slice(line, FirstColon(line) + 1, Len(line)))

\* the value text as the code cuts it
FieldText(line) == Strip(Split(line, ":")[2])

Assigns(line) == Len(line) > 1 /\ Contains(line, ":")

\* line j of the file is the last body line that assigns its key
LastForKey(lines, j) ==
    /\ Assigns(lines[j])
    /\ \A m \in (j + 1)..Len(lines) : Assigns(lines[m]) => KeyText(lines[m]) # KeyText(lines[j])

InfNan == {<<"i", "n", "f">>, <<"n", "a", "n">>}

GoodHeader(r) == r.st = "ok" /\ r.v.t = "dict"

\* C1: outside a with-block the connection of the latest scope has been committed
\* and then closed, nothing is left uncommitted, whether the block ended normally
\* or by an exception; inside a block the connection is open
C1_CommitThenClose ==
    /\ InScope => conn = "open" /\ connLog = <<"connect">>
    /\ ~InScope =>
         /\ conn = "closed"
         /\ db = txn
         /\ scope > 0 => connLog = <<"connect", "commit", "close">>

C1_Witness ==
    /\ pc = "idle"
    /\ op = "flat"
    /\ err = "OperationalError"
    /\ connLog = <<"connect", "commit", "close">>
    /\ conn = "closed"
    /\ db # dbAtStart

\* C2: an ingestion run over a directory without output files ends in
\* FileNotFoundError and leaves the store as it was (stated for the schemas the
\* store accepts)
C2_NotFoundNoWrite ==
    (pc = "idle" /\ Ingesting /\ NOut = 0 /\ schema # FileSchema) =>
        (err = "FileNotFoundError" /\ db = dbAtStart /\ storeLog = <<>>)

\* C3: a flat run that ends in a syntax or value failure of an output file has not
\* touched the store: its tables are those of before the run
C3_FlatAllOrNothing ==
    (pc = "idle" /\ op = "flat" /\ err \in {"SyntaxError", "ValueError"}) =>
        (db = dbAtStart /\ storeLog = <<>> /\ scope = 0)

C3_Witness ==
    /\ pc = "idle"
    /\ op = "flat"
    /\ err = "SyntaxError"
    /\ idx = 2
    /\ data # <<>>
    /\ db = StaleTables

\* C4: from the second ingestion run on, the store is the one the first run left;
\* a run without error leaves exactly the records it gathered
C4_Idempotent ==
    /\ (pc = "idle" /\ runs >= 2) => db = firstResult
    /\ (pc = "idle" /\ Ingesting /\ err = "") =>
         /\ Len(db["data"].rows) = Len(data)
         /\ op = "tabular" => Len(db["headers"].rows) = Len(headers)

C4_Witness ==
    /\ pc = "idle"
    /\ runs = 2
    /\ op = "tabular"
    /\ err = ""
    /\ Len(db["headers"].rows) = 2
    /\ Len(db["data"].rows) = 2
    /\ db = firstResult

FileFieldIs(record, filename) ==
    HasKey(record, K_file) /\ DictGet(record, K_file) = VInt(FileId(filename).n)

\* C5: every record gathered carries file = the integer of its file's name
C5_FileField ==
    /\ \A i \in 1..Len(data) : FileFieldIs(data[i], dsrc[i])
    /\ \A i \in 1..Len(headers) : FileFieldIs(headers[i], hsrc[i])

\* C6: in flat mode a body value inf or nan is stored as the integer -1
C6_InfNanMinusOne ==
    op = "flat" =>
      \A i \in 1..Len(data) :
        \A j \in 2..Len(ReadLines(dsrc[i])) :
          (/\ LastForKey(ReadLines(dsrc[i]), j)
           /\ ValueText(ReadLines(dsrc[i])[j]) \in InfNan)
            => DictGet(data[i], K(KeyText(ReadLines(dsrc[i])[j]))) = VInt(0 - 1)

\* C7 as stated: a flat run never aborts on a file whose header is a mapping
C7_BodyNeverAborts ==
    (FailedReading /\ op = "flat" /\ err # "FileNotFoundError") =>
        ~GoodHeader(literal_eval(ReadLines(output_files[idx])[1]))

SyntaxFails(line) == Assigns(line) /\ literal_eval(FieldText(line)).st = "SyntaxError"

ValueFails(line) == Assigns(line) /\ literal_eval(FieldText(line)).st = "ValueError"

RawOrMinusOne(v, line) ==
    \/ v = VStr(FieldText(line))
    \/ Split(line, ":")[2] \in InfNan /\ v = VInt(0 - 1)

\* C7 amended: a value text on which literal_eval raises ValueError is stored as
\* the trimmed raw string and the file goes on; a flat run that aborts on a file
\* whose header is a mapping aborts with SyntaxError on a value text that does
\* not parse
C7_ValueErrorFallback ==
    /\ (FailedReading /\ op = "flat" /\ err # "FileNotFoundError"
          /\ GoodHeader(literal_eval(ReadLines(output_files[idx])[1]))) =>
         /\ err = "SyntaxError"
         /\ \E j \in 2..Len(ReadLines(output_files[idx])) :
                SyntaxFails(ReadLines(output_files[idx])[j])
    /\ op = "flat" =>
         \A i \in 1..Len(data) :
           \A j \in 2..Len(ReadLines(dsrc[i])) :
             (LastForKey(ReadLines(dsrc[i]), j) /\ ValueFails(ReadLines(dsrc[i])[j]))
               => RawOrMinusOne(DictGet(data[i], K(KeyText(ReadLines(dsrc[i])[j]))),
                                ReadLines(dsrc[i])[j])

C7_Witness ==
    /\ op = "flat"
    /\ \E i \in 1..Len(data) :
         /\ ReadLines(dsrc[i]) = <<H_pos, B_inf, B_a1>>
         /\ DictGet(data[i], K(<<"b">>)) = VStr(<<"i", "n", "f">>)
         /\ DictGet(data[i], K(<<"a">>)) = VInt(1)

\* C8 as stated: in either mode every statement run on the store comes after the
\* last output file was read, and a run that fails while reading has run none
C8_ReadBeforeWrite ==
    /\ Ingesting => \A k \in 1..Len(storeLog) : storeLog[k].nread = NOut
    /\ FailedReading => storeLog = <<>>

\* C8 amended: so it is in flat mode; in tabular mode DROP and CREATE of data come
\* before any file is read and every other statement after the last one
C8_ReadBeforeWriteFlat ==
    /\ op = "flat" => \A k \in 1..Len(storeLog) : storeLog[k].nread = NOut
    /\ (FailedReading /\ op = "flat") => storeLog = <<>>
    /\ op = "tabular" =>
         \A k \in 1..Len(storeLog) :
           /\ k = 1 => storeLog[k] = [stmt |-> "DROP data", nread |-> 0]
           /\ k = 2 => storeLog[k] = [stmt |-> "CREATE data", nread |-> 0]
           /\ k > 2 => /\ storeLog[k].stmt \in {"REPLACE headers", "INSERT data"}
                       /\ storeLog[k].nread = NOut
    /\ (FailedReading /\ op = "tabular") => Len(storeLog) = 2

C8_Witness ==
    /\ FailedReading
    /\ op = "tabular"
    /\ err = "SyntaxError"
    /\ idx = 2
    /\ storeLog = <<[stmt |-> "DROP data", nread |-> 0], [stmt |-> "CREATE data", nread |-> 0]>>
    /\ dbAtStart = StaleTables
    /\ db # dbAtStart

FullValue(v, line) ==
    \/ v = VStr(ValueText(line))
    \/ literal_eval(ValueText(line)).st = "ok" /\ v = literal_eval(ValueText(line)).v
    \/ ValueText(line) \in InfNan /\ v = VInt(0 - 1)

\* C9: in flat mode the value stored for a body line comes from the whole text
\* after the first ':' of the line
C9_FirstColonSplit ==
    op = "flat" =>
      \A i \in 1..Len(data) :
        \A j \in 2..Len(ReadLines(dsrc[i])) :
          LastForKey(ReadLines(dsrc[i]), j)
            => FullValue(DictGet(data[i], K(KeyText(ReadLines(dsrc[i])[j]))),
                         ReadLines(dsrc[i])[j])

\* C10: no header record has the empty-string key, and no file whose header is a
\* mapping fails on the building of its header record
C10_HeaderRecord ==
    /\ op = "flat" => \A i \in 1..Len(data) : ~HasKey(data[i], K_empty)
    /\ op = "tabular" => \A i \in 1..Len(headers) : ~HasKey(headers[i], K_empty)
    /\ (FailedReading /\ GoodHeader(literal_eval(ReadLines(output_files[idx])[1])))
         => err # "TypeError"

====
